---- MODULE Spec2Model ----
(***************************************************************************)
(* State-machine model of the linkedin-resume-optimizer frontend:          *)
(*   - the Optimize page (frontend/src/pages/OptimizePage.tsx, the later   *)
(*     of the two versions in that file),                                  *)
(*   - the API client (unnamed/part_003: axios interceptor, JobsApi with   *)
(*     retryRequest, resumeApi; unnamed/part_004: the handleError client), *)
(*   - the Load More job search page (unnamed/part_003).                   *)
(*                                                                         *)
(* JavaScript strings are modelled as sequences of tokens: a token is an   *)
(* indivisible piece of text, the empty string is <<>>.  A substring test  *)
(* looks for a token, a suffix test looks at the last token.               *)
(***************************************************************************)
EXTENDS Integers, Sequences, FiniteSets, TLC

\* ---------------------------------------------------------------------
\* Bounds of the model
\* ---------------------------------------------------------------------
\* FileReader reads that may be pending at once
MaxReaders == 1
\* highest page number Load More may ask for
MaxPage == 1
\* pages the infinite query may hold
MaxScrollPages == 2
\* longest jobs list
MaxJobs == 2
\* search fetches that may be in progress at once
MaxFetches == 2
\* last moment of the clock of LoadingSteps, in ms
MaxClock == 7500
\* last moment of the clock of App, in ms
MaxAppClock == 606000

\* ---------------------------------------------------------------------
\* Strings
\* ---------------------------------------------------------------------
\* JavaScript truthiness of a string: non-empty
truthy(s) == Len(s) > 0

\* String.prototype.includes, on tokens
includes(s, t) == \E i \in 1..Len(s) : s[i] = t

\* String.prototype.endsWith, on tokens
endsWith(s, t) == Len(s) > 0 /\ s[Len(s)] = t

\* lower-case form of one token
lowerToken(t) ==
  CASE t = "CV" -> "cv"
    [] t = ".DOC" -> ".doc"
    [] t = ".DOCX" -> ".docx"
    [] t = ".TXT" -> ".txt"
    [] t = "Too many requests" -> "too many requests"
    [] t = "Rate limit" -> "rate limit"
    [] t = "Request timed out. LinkedIn might be " -> "request timed out. linkedin might be "
    [] OTHER -> t

\* String.prototype.toLowerCase
toLowerCase(s) == [i \in 1..Len(s) |-> lowerToken(s[i])]

\* white-space tokens
isSpace(t) == t = " "

RECURSIVE trimStart(_)
trimStart(s) == IF Len(s) > 0 /\ isSpace(s[1]) THEN trimStart(Tail(s)) ELSE s

RECURSIVE trimEnd(_)
trimEnd(s) ==
  IF Len(s) > 0 /\ isSpace(s[Len(s)]) THEN trimEnd(SubSeq(s, 1, Len(s) - 1)) ELSE s

\* String.prototype.trim
trim(s) == trimEnd(trimStart(s))

\* job_url.replace(/\/+$/, ''): drop every trailing slash
RECURSIVE stripTrailingSlashes(_)
stripTrailingSlashes(s) ==
  IF Len(s) > 0 /\ s[Len(s)] = "/"
  THEN stripTrailingSlashes(SubSeq(s, 1, Len(s) - 1))
  ELSE s

\* ---------------------------------------------------------------------
\* HTTP failures and the error messages of the two clients
\* ---------------------------------------------------------------------
\* a failed HTTP call as axios reports it: error.code, error.response?.status
\* (0: no response) and error.response?.data?.detail (hasDetail FALSE:
\* undefined)
NoResponse == 0

ServerDetails == {<<>>, <<"Resume could not be parsed">>, <<"Rate limit", " reached upstream">>}

HttpFailures ==
  {[code |-> "ECONNABORTED", status |-> NoResponse, hasDetail |-> FALSE, detail |-> <<>>],
   [code |-> "ERR_NETWORK", status |-> NoResponse, hasDetail |-> FALSE, detail |-> <<>>]}
  \cup
  {[code |-> "ERR_BAD_RESPONSE", status |-> st, hasDetail |-> FALSE, detail |-> <<>>] :
      st \in {429, 404, 400, 500}}
  \cup
  {[code |-> "ERR_BAD_RESPONSE", status |-> st, hasDetail |-> TRUE, detail |-> d] :
      st \in {429, 404, 400, 500}, d \in ServerDetails}

TimeoutMessage ==
  <<"Request timed out. LinkedIn might be ", "rate limit",
    "ing requests. Please wait a few minutes before trying again.">>
TooManyMessage ==
  <<"Too many requests", ". Please wait a few minutes before trying again.">>
NotFoundMessage == <<"Job not found or no longer available on LinkedIn.">>
InvalidRequestMessage == <<"Invalid request. Please check your search terms.">>
GenericMessage == <<"An error occurred. Please try again later.">>

\* interceptor without the branch for HTTP 429
interceptor_No429(e) ==
  IF e.code = "ECONNABORTED" THEN TimeoutMessage
  ELSE IF e.status = 404 THEN NotFoundMessage
  ELSE IF e.status = 400
       THEN (IF e.hasDetail /\ truthy(e.detail) THEN e.detail ELSE InvalidRequestMessage)
  ELSE IF e.status # NoResponse /\ e.hasDetail /\ truthy(e.detail) THEN e.detail
  ELSE GenericMessage

\* the Error thrown by the response interceptor of axiosInstance
interceptor(e) ==
  IF e.code = "ECONNABORTED" THEN TimeoutMessage
  ELSE IF e.status = 429 THEN TooManyMessage
  ELSE IF e.status = 404 THEN NotFoundMessage
  ELSE IF e.status = 400
       THEN (IF e.hasDetail /\ truthy(e.detail) THEN e.detail ELSE InvalidRequestMessage)
  ELSE IF e.status # NoResponse /\ e.hasDetail /\ truthy(e.detail) THEN e.detail
  ELSE GenericMessage

RateLimitExceededMessage == <<"Rate limit", " exceeded. Please try again later.">>
AnErrorOccurredMessage == <<"An error occurred">>
UnexpectedMessage == <<"An unexpected error occurred">>

\* the Error thrown by handleError of the older client
handleError(e) ==
  IF e.status # NoResponse
  THEN IF e.status = 429 THEN RateLimitExceededMessage
       ELSE IF e.hasDetail /\ truthy(e.detail) THEN e.detail
       ELSE AnErrorOccurredMessage
  ELSE UnexpectedMessage

\* ---------------------------------------------------------------------
\* Optimize page: inputs
\* ---------------------------------------------------------------------
\* const maxSize = 5 * 1024 * 1024
maxSize == 5242880

\* currentFile = null
NoFile == [name |-> <<>>, size |-> 0, content |-> <<>>]

\* files the user may pick in the file dialog
Files ==
  {[name |-> <<"cv", ".docx">>, size |-> 1024, content |-> <<>>],
   [name |-> <<"CV", ".DOC">>, size |-> maxSize, content |-> <<>>],
   [name |-> <<"cv", ".txt">>, size |-> 1024, content |-> <<"Backend engineer">>],
   [name |-> <<"blank", ".txt">>, size |-> 2, content |-> <<" ">>],
   [name |-> <<"cv", ".pdf">>, size |-> 1024, content |-> <<>>],
   [name |-> <<"scan", ".docx">>, size |-> maxSize + 1, content |-> <<>>]}

\* texts the user may type into the resume field
TypedResumes == {<<>>, <<"Typed resume">>}
\* texts the user may type into the job description field
TypedDescriptions == {<<>>, <<"Seeking a backend engineer">>}
\* texts the user may type into the job URL field
TypedUrls ==
  {<<>>, <<"https://www.", "linkedin.com/jobs", "/view/1", "/">>,
   <<"https://example.com/", "job/1">>}
\* optimized_resume of a successful response
Suggestions == {<<>>, <<"Add Go experience">>}
\* texts the user may type into the suggestions textarea
TypedSuggestions == {<<>>, <<"My own wording">>}
\* failures of an optimize or export request seen by the page
PageFailures ==
  {e \in HttpFailures :
     e.code = "ECONNABORTED" \/ (e.status = 400 /\ e.detail = <<"Resume could not be parsed">>)}

MsgResumeRequired == <<"Resume text or file is required">>
MsgEitherRequired == <<"Either job description or URL is required">>
MsgValidUrl == <<"Must be a valid LinkedIn job URL">>
NoError == <<>>

VARIABLES
  currentFile,        \* useState<File | null>
  values,             \* form.values
  readers,            \* FileReader reads in progress
  editedSuggestions,  \* useState<string>
  optimizedResume,    \* useState<string>
  mutations,          \* isPending and error of the three useMutation results
  last                \* what the last step did: handler, notification,
                      \* form errors, optimize request sent, export request sent

optVars ==
  <<currentFile, values, readers, editedSuggestions, optimizedResume, mutations,
    last>>

NoReq == [endpoint |-> "none"]
NoNotice == <<>>
Endpoints == {"/optimize/resume", "/optimize/resume/url", "/optimize/resume/docx"}
IdleMutation == [isPending |-> FALSE, error |-> NoError]
NoErrors == [resume_text |-> NoError, job_description |-> NoError, job_url |-> NoError]

\* the record of a step that ran handler op and showed notification n
did(op, n) ==
  [op |-> op, notice |-> n, errors |-> NoErrors, request |-> NoReq, export |-> <<>>]

\* ---------------------------------------------------------------------
\* Optimize page: form validation
\* ---------------------------------------------------------------------
validateResumeText(value, file) ==
  IF ~truthy(value) /\ file = NoFile THEN MsgResumeRequired ELSE NoError

validateJobDescription(value, vals) ==
  IF ~truthy(value) /\ ~truthy(vals.job_url) THEN MsgEitherRequired ELSE NoError

\* validate.job_url without the test of the URL's shape
validateJobUrl_NoShape(value, vals) ==
  IF ~truthy(value) /\ ~truthy(vals.job_description) THEN MsgEitherRequired ELSE NoError

validateJobUrl(value, vals) ==
  IF ~truthy(value) /\ ~truthy(vals.job_description) THEN MsgEitherRequired
  ELSE IF truthy(value) /\ ~includes(value, "linkedin.com/jobs") THEN MsgValidUrl
  ELSE NoError

\* validate without the rule that a job description or a job URL is required
validate_NoJobRule(vals, file) ==
  [resume_text |-> validateResumeText(vals.resume_text, file),
   job_description |-> NoError,
   job_url |-> IF truthy(vals.job_url) /\ ~includes(vals.job_url, "linkedin.com/jobs")
               THEN MsgValidUrl ELSE NoError]

\* form.validate(): the error of every field
validate(vals, file) ==
  [resume_text |-> validateResumeText(vals.resume_text, file),
   job_description |-> validateJobDescription(vals.job_description, vals),
   job_url |-> validateJobUrl(vals.job_url, vals)]

hasErrors(errs) == errs # NoErrors

\* ---------------------------------------------------------------------
\* Optimize page: derived values of a render
\* ---------------------------------------------------------------------
isLoading == \E m \in Endpoints : mutations[m].isPending

\* optimizeMutation.error || optimizeFromUrlMutation.error || optimizeFromDocxMutation.error
pageError ==
  IF mutations["/optimize/resume"].error # NoError THEN mutations["/optimize/resume"].error
  ELSE IF mutations["/optimize/resume/url"].error # NoError
       THEN mutations["/optimize/resume/url"].error
  ELSE mutations["/optimize/resume/docx"].error

\* the result area without the test of optimizedResume
resultView_NoResultTest ==
  IF isLoading THEN "loading"
  ELSE IF pageError # NoError THEN "error"
  ELSE "suggestions"

\* what the result area renders
resultView ==
  IF isLoading THEN "loading"
  ELSE IF pageError # NoError THEN "error"
  ELSE IF truthy(optimizedResume) THEN "suggestions"
  ELSE "nothing"

\* value of the suggestions textarea
shownSuggestions == IF truthy(editedSuggestions) THEN editedSuggestions ELSE optimizedResume

\* disabled={!currentFile} of the Export Resume button
exportDisabled == currentFile = NoFile

\* useEffect on optimizedResume: copy a non-empty result into editedSuggestions
syncEdited(newOptimized, oldOptimized, edited) ==
  IF newOptimized # oldOptimized /\ truthy(newOptimized) THEN newOptimized ELSE edited

OptInit ==
  /\ currentFile = NoFile
  /\ values \in {[resume_text |-> <<>>, job_description |-> <<>>, job_url |-> u] :
                   u \in TypedUrls}
  /\ readers = {}
  /\ editedSuggestions = <<>>
  /\ optimizedResume = <<>>
  /\ mutations = [m \in Endpoints |-> IdleMutation]
  /\ last = did("mount", NoNotice)

\* ---------------------------------------------------------------------
\* Optimize page: handlers
\* ---------------------------------------------------------------------
\* onChange of a form field
EditField(field, v) ==
  /\ values' = [values EXCEPT ![field] = v]
  /\ last' = did("edit", NoNotice)
  /\ UNCHANGED <<currentFile, readers, editedSuggestions, optimizedResume, mutations>>

isRichName(name) == endsWith(name, ".docx") \/ endsWith(name, ".doc")

placeholder(file) == <<"File selected: ">> \o file.name

\* handleFileUpload without the test of the file's size
handleFileUpload_NoSizeTest(file) ==
  /\ LET fileType == toLowerCase(file.name) IN
     IF file = NoFile
     THEN /\ last' = did("handleFileUpload", NoNotice)
          /\ UNCHANGED <<currentFile, values, readers>>
     ELSE IF ~endsWith(fileType, ".docx") /\ ~endsWith(fileType, ".doc")
               /\ ~endsWith(fileType, ".txt")
     THEN /\ last' = did("handleFileUpload",
                         <<"Only .doc, .docx and .txt files are supported">>)
          /\ UNCHANGED <<currentFile, values, readers>>
     ELSE /\ currentFile' = file
          /\ IF isRichName(fileType)
             THEN /\ values' = [values EXCEPT !.resume_text = placeholder(file)]
                  /\ last' = did("handleFileUpload",
                                 file.name \o <<" selected for optimization">>)
                  /\ UNCHANGED readers
             ELSE /\ Cardinality(readers \cup {file}) <= MaxReaders
                  /\ readers' = readers \cup {file}
                  /\ last' = did("handleFileUpload", NoNotice)
                  /\ UNCHANGED values
  /\ UNCHANGED <<editedSuggestions, optimizedResume, mutations>>

handleFileUpload(file) ==
  /\ IF file = NoFile
     THEN /\ last' = did("handleFileUpload", NoNotice)
          /\ UNCHANGED <<currentFile, values, readers>>
     ELSE IF file.size > maxSize
     THEN /\ last' = did("handleFileUpload", <<"File size must be less than 5MB">>)
          /\ UNCHANGED <<currentFile, values, readers>>
     ELSE LET fileType == toLowerCase(file.name) IN
          IF ~endsWith(fileType, ".docx") /\ ~endsWith(fileType, ".doc")
               /\ ~endsWith(fileType, ".txt")
          THEN /\ last' = did("handleFileUpload",
                              <<"Only .doc, .docx and .txt files are supported">>)
               /\ UNCHANGED <<currentFile, values, readers>>
          ELSE /\ currentFile' = file
               /\ IF isRichName(fileType)
                  THEN /\ values' = [values EXCEPT !.resume_text = placeholder(file)]
                       /\ last' = did("handleFileUpload",
                                      file.name \o <<" selected for optimization">>)
                       /\ UNCHANGED readers
                  ELSE /\ Cardinality(readers \cup {file}) <= MaxReaders
                       /\ readers' = readers \cup {file}
                       /\ last' = did("handleFileUpload", NoNotice)
                       /\ UNCHANGED values
  /\ UNCHANGED <<editedSuggestions, optimizedResume, mutations>>

\* reader.onload
ReaderLoad(file) ==
  /\ file \in readers
  /\ readers' = readers \ {file}
  /\ IF truthy(file.content)
     THEN IF Len(trim(file.content)) = 0
          THEN /\ last' = did("reader.onload", <<"The file appears to be empty">>)
               /\ UNCHANGED values
          ELSE /\ values' = [values EXCEPT !.resume_text = file.content]
               /\ last' = did("reader.onload",
                              file.name \o <<" content loaded successfully">>)
     ELSE /\ last' = did("reader.onload", NoNotice)
          /\ UNCHANGED values
  /\ UNCHANGED <<currentFile, editedSuggestions, optimizedResume, mutations>>

\* reader.onerror
ReaderError(file) ==
  /\ file \in readers
  /\ readers' = readers \ {file}
  /\ last' = did("reader.onerror", <<"Failed to read file content">>)
  /\ UNCHANGED <<currentFile, values, editedSuggestions, optimizedResume, mutations>>

\* the request with the job_url test made before the test of the file
buildRequest_UrlFirst(vals, file) ==
  IF truthy(vals.job_url)
  THEN [endpoint |-> "/optimize/resume/url", resume_text |-> vals.resume_text,
        job_url |-> stripTrailingSlashes(vals.job_url)]
  ELSE IF file # NoFile /\ isRichName(file.name)
  THEN [endpoint |-> "/optimize/resume/docx", resume |-> file,
        job_description |-> vals.job_description, job_url |-> vals.job_url]
  ELSE [endpoint |-> "/optimize/resume", resume_text |-> vals.resume_text,
        job_description |-> vals.job_description]

\* the request handleSubmit hands to one of the three mutations, as the
\* mutationFn and resumeApi put it on the wire
buildRequest(vals, file) ==
  IF file # NoFile /\ isRichName(file.name)
  THEN [endpoint |-> "/optimize/resume/docx", resume |-> file,
        job_description |-> vals.job_description, job_url |-> vals.job_url]
  ELSE IF truthy(vals.job_url)
  THEN [endpoint |-> "/optimize/resume/url", resume_text |-> vals.resume_text,
        job_url |-> stripTrailingSlashes(vals.job_url)]
  ELSE [endpoint |-> "/optimize/resume", resume_text |-> vals.resume_text,
        job_description |-> vals.job_description]

\* handleSubmit without setOptimizedResume('')
handleSubmit_KeepResult ==
  /\ ~isLoading
  /\ LET errs == validate(values, currentFile) IN
     IF hasErrors(errs)
     THEN /\ last' = [did("handleSubmit", NoNotice) EXCEPT !.errors = errs]
          /\ UNCHANGED mutations
     ELSE LET req == buildRequest(values, currentFile) IN
          /\ mutations' = [mutations EXCEPT ![req.endpoint] =
                             [isPending |-> TRUE, error |-> NoError]]
          /\ last' = [did("handleSubmit", <<"Starting resume optimization...">>)
                        EXCEPT !.request = req]
  /\ UNCHANGED <<currentFile, values, readers, optimizedResume, editedSuggestions>>

\* form.onSubmit(handler): validate, then run the handler only without errors.
\* The submit button is disabled while isLoading.
handleSubmit ==
  /\ ~isLoading
  /\ LET errs == validate(values, currentFile) IN
     IF hasErrors(errs)
     THEN /\ last' = [did("handleSubmit", NoNotice) EXCEPT !.errors = errs]
          /\ UNCHANGED <<optimizedResume, editedSuggestions, mutations>>
     ELSE LET req == buildRequest(values, currentFile) IN
          /\ optimizedResume' = <<>>
          /\ editedSuggestions' = syncEdited(<<>>, optimizedResume, editedSuggestions)
          /\ mutations' = [mutations EXCEPT ![req.endpoint] =
                             [isPending |-> TRUE, error |-> NoError]]
          /\ last' = [did("handleSubmit", <<"Starting resume optimization...">>)
                        EXCEPT !.request = req]
  /\ UNCHANGED <<currentFile, values, readers>>

\* the optimize request of mutation m succeeds: onSuccess
OptimizeSuccess(m, data) ==
  /\ mutations[m].isPending
  /\ mutations' = [mutations EXCEPT ![m] = [isPending |-> FALSE, error |-> NoError]]
  /\ optimizedResume' = data
  /\ editedSuggestions' = syncEdited(data, optimizedResume, editedSuggestions)
  /\ last' = did("onSuccess", <<"Resume optimization completed">>)
  /\ UNCHANGED <<currentFile, values, readers>>

\* what mutation m does when its request has failed with message msg:
\* the error is stored and shown, nothing is sent
onError(m, msg) ==
  /\ mutations' = [mutations EXCEPT ![m] = [isPending |-> FALSE, error |-> msg]]
  /\ last' = did("onError", msg)

\* the optimize request of mutation m fails: the interceptor's Error reaches onError
OptimizeFailure(m, e) ==
  /\ mutations[m].isPending
  /\ onError(m, interceptor(e))
  /\ UNCHANGED <<currentFile, values, readers, editedSuggestions, optimizedResume>>

\* onChange of the suggestions textarea
EditSuggestions(v) ==
  /\ resultView = "suggestions"
  /\ editedSuggestions' = v
  /\ last' = did("editSuggestions", NoNotice)
  /\ UNCHANGED <<currentFile, values, readers, optimizedResume, mutations>>

\* exportOnClick without the test of currentFile
exportOnClick_NoFileTest(file, edited, optimized) ==
  <<[resume |-> file, suggestions |-> IF truthy(edited) THEN edited ELSE optimized]>>

\* the FormData the Export button's onClick posts, <<>> if it posts nothing
exportOnClick(file, edited, optimized) ==
  IF file # NoFile
  THEN <<[resume |-> file, suggestions |-> IF truthy(edited) THEN edited ELSE optimized]>>
  ELSE <<>>

\* onClick of the Export Resume button; the posted request then settles and
\* .then or .catch shows its notification (ok: the request succeeded)
ExportClick(ok, e) ==
  /\ resultView = "suggestions"
  /\ LET posted == exportOnClick(currentFile, editedSuggestions, optimizedResume) IN
     last' = [did("exportClick",
                  IF posted = <<>> THEN NoNotice
                  ELSE IF ok
                  THEN <<"Resume updated successfully! Check your downloads folder.">>
                  ELSE interceptor(e))
                EXCEPT !.export = posted]
  /\ UNCHANGED <<currentFile, values, readers, editedSuggestions, optimizedResume,
                 mutations>>

\* ---------------------------------------------------------------------
\* API client: one call through JobsApi / resumeApi (interceptor client)
\* or through the older client (handleError)
\* ---------------------------------------------------------------------
\* methods of class JobsApi that run their request inside retryRequest
RetryMethods == {"jobsApi.search", "jobsApi.getDescription", "jobsApi.optimizeResume"}
\* methods of resumeApi: one axiosInstance call, no retryRequest
ResumeMethods ==
  {"resumeApi.optimize", "resumeApi.optimizeFromUrl", "resumeApi.optimizeFromDocx",
   "resumeApi.exportResume"}
\* methods of the older client: one axios call, errors go through handleError
OlderMethods == {"older.jobsApi.search", "older.resumeApi.optimize"}
\* JobsApi.ping: one axiosInstance call inside its own try/catch
PingMethods == {"jobsApi.ping"}
Methods == RetryMethods \cup ResumeMethods \cup OlderMethods \cup PingMethods

\* methods that ask for a resume optimization
OptimizationMethods ==
  {"jobsApi.optimizeResume", "resumeApi.optimize", "resumeApi.optimizeFromUrl",
   "resumeApi.optimizeFromDocx", "older.resumeApi.optimize"}

\* the argument the guard of a JobsApi method looks at (keywords, jobId, url)
ApiArgs == {<<>>, <<"backend">>}

\* every method run inside retryRequest with the default retries
initialRetries_AllWrapped(method) ==
  IF method = "jobsApi.optimizeResume" THEN 2 ELSE 3

\* retries argument of retryRequest (default 3; 2 for optimizeResume); a method
\* that does not use retryRequest rethrows at once, as with no retries left
initialRetries(method) ==
  IF method = "jobsApi.optimizeResume" THEN 2
  ELSE IF method \in RetryMethods THEN 3
  ELSE 0

\* delay argument of retryRequest (default 2000; 5000 for optimizeResume)
initialDelay(method) ==
  IF method = "jobsApi.optimizeResume" THEN 5000
  ELSE IF method \in RetryMethods THEN 2000
  ELSE 0

\* the Error a JobsApi method throws before any request when its argument is falsy
guardMessage(method) ==
  IF method = "jobsApi.search" THEN <<"Keywords are required for job search">>
  ELSE IF method = "jobsApi.getDescription" THEN <<"Job ID is required">>
  ELSE <<"Job URL is required">>

\* isRateLimit of retryRequest
isRateLimit(msg) ==
  \/ includes(toLowerCase(msg), "rate limit")
  \/ includes(toLowerCase(msg), "too many requests")

\* the Error a failed HTTP call of the method rejects with
errorMessage(method, e) ==
  IF method \in OlderMethods THEN handleError(e) ELSE interceptor(e)

\* a catch block that issues the request again after any error
retryAgain_AnyError(retriesLeft, msg) == retriesLeft # 0

\* catch block of retryRequest: TRUE if the request is issued again
retryAgain(retriesLeft, msg) == retriesLeft # 0 /\ isRateLimit(msg)

\* a backoff that does not grow
nextDelay_Same(d) == d

\* delay * 2 of the recursive call of retryRequest
nextDelay(d) == d * 2

NoFailure == [code |-> "none", status |-> NoResponse, hasDetail |-> FALSE, detail |-> <<>>]

\* response.data of a successful GET /ping: an object with a status string,
\* an object without one, or no object at all (null)
NoBody == [kind |-> "none", status |-> <<>>]
PingBodies ==
  {[kind |-> "object", status |-> <<"ok">>],
   [kind |-> "object", status |-> <<"OK">>],
   [kind |-> "object", status |-> <<"starting">>],
   [kind |-> "object", status |-> <<>>],
   [kind |-> "null", status |-> <<>>]}

\* how a piece of code ends: it returns a value or it throws
Return(v) == [kind |-> "return", value |-> v]
Throw == [kind |-> "throw", value |-> FALSE]
NoResult == [kind |-> "none", value |-> FALSE]

\* try block of ping: the awaited request throws when it fails, reading
\* .status of null throws a TypeError, otherwise status === 'ok' is returned
pingTry(failed, body) ==
  IF failed THEN Throw
  ELSE IF body.kind = "null" THEN Throw
  ELSE Return(body.status = <<"ok">>)

\* ping without its catch block
ping_NoCatch(failed, body) == pingTry(failed, body)

\* JobsApi.ping: the catch block logs the error and returns false
ping(failed, body) ==
  IF pingTry(failed, body).kind = "throw" THEN Return(FALSE) ELSE pingTry(failed, body)

VARIABLES
  apiMethod,       \* the method called
  apiArg,          \* its argument
  apiPc,           \* "idle", "request" (HTTP call in flight), "wait" (backoff),
                   \* "resolved", "rejected"
  retries,         \* retries parameter of the running retryRequest
  delay,           \* delay parameter of the running retryRequest
  attempts,        \* HTTP requests issued by this call
  waits,           \* the delays this call has waited, in order
  apiFailure,      \* the failure of the last HTTP request of this call
  apiError,        \* message of the last Error of this call
  only429,         \* every failure of this call so far was an HTTP 429
  timeoutRetries,  \* requests this call issued again after a timeout
  apiBody,         \* response.data of the GET /ping of this call
  apiResult        \* how a settled ping ended, NoResult otherwise

apiVars ==
  <<apiMethod, apiArg, apiPc, retries, delay, attempts, waits, apiFailure, apiError,
    only429, timeoutRetries, apiBody, apiResult>>

ApiInit ==
  /\ apiMethod = "none"
  /\ apiArg = <<>>
  /\ apiPc = "idle"
  /\ retries = 0
  /\ delay = 0
  /\ attempts = 0
  /\ waits = <<>>
  /\ apiFailure = NoFailure
  /\ apiError = NoError
  /\ only429 = TRUE
  /\ timeoutRetries = 0
  /\ apiBody = NoBody
  /\ apiResult = NoResult

\* a caller invokes a method of the client
ApiCall(method, arg) ==
  /\ apiPc \in {"idle", "resolved", "rejected"}
  /\ apiMethod' = method
  /\ apiArg' = arg
  /\ retries' = initialRetries(method)
  /\ delay' = initialDelay(method)
  /\ waits' = <<>>
  /\ apiFailure' = NoFailure
  /\ only429' = TRUE
  /\ timeoutRetries' = 0
  /\ apiBody' = NoBody
  /\ apiResult' = NoResult
  /\ IF method \in RetryMethods /\ ~truthy(arg)
     THEN /\ apiPc' = "rejected"
          /\ apiError' = guardMessage(method)
          /\ attempts' = 0
     ELSE /\ apiPc' = "request"
          /\ apiError' = NoError
          /\ attempts' = 1

\* the HTTP request succeeds
ApiResponse ==
  /\ apiPc = "request"
  /\ apiMethod \notin PingMethods
  /\ apiPc' = "resolved"
  /\ UNCHANGED <<apiMethod, apiArg, retries, delay, attempts, waits, apiFailure,
                 apiError, only429, timeoutRetries, apiBody, apiResult>>

\* the HTTP request fails with e: interceptor or handleError, then the catch
\* block of retryRequest
ApiFailure(e) ==
  /\ apiPc = "request"
  /\ apiMethod \notin PingMethods
  /\ apiFailure' = e
  /\ apiError' = errorMessage(apiMethod, e)
  /\ only429' = (only429 /\ e.status = 429)
  /\ apiPc' = IF retryAgain(retries, errorMessage(apiMethod, e))
              THEN "wait" ELSE "rejected"
  /\ UNCHANGED <<apiMethod, apiArg, retries, delay, attempts, waits, timeoutRetries,
                 apiBody, apiResult>>

\* await wait(delay) is over: retryRequest(fn, retries - 1, delay * 2) issues
\* the request again
ApiRetry ==
  /\ apiPc = "wait"
  /\ waits' = Append(waits, delay)
  /\ retries' = retries - 1
  /\ delay' = nextDelay(delay)
  /\ attempts' = attempts + 1
  /\ timeoutRetries' = timeoutRetries + (IF apiFailure.code = "ECONNABORTED" THEN 1 ELSE 0)
  /\ apiPc' = "request"
  /\ UNCHANGED <<apiMethod, apiArg, apiFailure, apiError, only429, apiBody, apiResult>>

\* how a ping ends whose request has settled: the promise resolves with the
\* returned boolean, or rejects if ping throws
pingSettled(failed, body) ==
  /\ apiPc' = IF ping(failed, body).kind = "throw" THEN "rejected" ELSE "resolved"
  /\ apiResult' = ping(failed, body)

\* GET /ping of a ping call succeeds with response.data = body
PingResponse(body) ==
  /\ apiPc = "request"
  /\ apiMethod \in PingMethods
  /\ apiBody' = body
  /\ pingSettled(FALSE, body)
  /\ UNCHANGED <<apiMethod, apiArg, retries, delay, attempts, waits, apiFailure,
                 apiError, only429, timeoutRetries>>

\* GET /ping of a ping call fails with e: the interceptor's Error is thrown
\* inside the try block
PingFailure(e) ==
  /\ apiPc = "request"
  /\ apiMethod \in PingMethods
  /\ apiFailure' = e
  /\ apiError' = interceptor(e)
  /\ only429' = (only429 /\ e.status = 429)
  /\ pingSettled(TRUE, NoBody)
  /\ UNCHANGED <<apiMethod, apiArg, retries, delay, attempts, waits, timeoutRetries,
                 apiBody>>

\* ---------------------------------------------------------------------
\* Job search page (Load More version) and JobsApi.search
\* ---------------------------------------------------------------------
\* keywords the user may type or the URL may carry
Keywords == {<<>>, <<"backend">>}

\* the URL the page is opened with: no 'keywords' parameter, or one of Keywords
UrlNone == <<"<no keywords parameter>">>

KeywordsRequiredMessage == <<"Keywords are required for job search">>
MsgKeywordsRequired == <<"Keywords are required">>

\* JobsApi.search without the test of request.keywords
searchRejects_NoTest(request) == FALSE

\* JobsApi.search: TRUE if the call throws before any request is made
searchRejects(request) == ~truthy(request.keywords)

\* validate.keywords of the search form
validateKeywords(value) ==
  IF Len(trim(value)) = 0 THEN MsgKeywordsRequired ELSE NoError

VARIABLES
  searchHasKeywords,  \* searchParams.has('keywords'): the query is enabled
  searchKeywords,     \* form.values.keywords
  currentPage,        \* useState(0)
  isLoadingMore,      \* useState(false)
  hasMore,            \* useState(true)
  jobs,               \* useState([]): one entry per job, the request it answers
  searchError,        \* useState<string | null>(null), <<>> for null
  loadMoreTimer,      \* the 1 s delay of loadMore is running
  hasData,            \* query keys with data in the query cache
  fresh,              \* query keys whose data is not stale
  fetches,            \* runs of the queryFn in progress
  searchLast          \* what the last step did: handler, form error,
                      \* requests posted to /jobs/search

searchVars ==
  <<searchHasKeywords, searchKeywords, currentPage, isLoadingMore, hasMore, jobs,
    searchError, loadMoreTimer, hasData, fresh, fetches, searchLast>>

\* queryKey ['jobs', {...form.values, page: currentPage}]
queryKey(kw, page) == [keywords |-> kw, page |-> page]

currentKey == queryKey(searchKeywords, currentPage)

searchDid(op) == [op |-> op, formError |-> NoError, posted |-> <<>>]

\* the query of key k is fetching (a retry that waits counts)
isFetchingKey(k, fs) == \E f \in fs : f.key = k

isFetching == isFetchingKey(currentKey, fetches)

\* isLoading of useQuery: first fetch of a key without data
isLoadingSearch == isFetching /\ currentKey \notin hasData

\* one run of the queryFn for key k, attempt n: jobsApi.search either throws
\* at once (the catch block sets error, the query waits for its retry or
\* gives up after the second attempt) or posts the request
runQueryFn(k, n) ==
  IF searchRejects(k)
  THEN [fetch |-> IF n = 1 THEN {[key |-> k, attempt |-> 1, phase |-> "retryWait"]} ELSE {},
        error |-> <<KeywordsRequiredMessage>>, posted |-> <<>>]
  ELSE [fetch |-> {[key |-> k, attempt |-> n, phase |-> "http"]},
        error |-> <<>>, posted |-> <<k>>]

\* the observer after a render: fetch key k if the query is enabled, k has no
\* fresh data and k is not fetching already
observe(enabled, k, freshKeys, fs) ==
  IF enabled /\ k \notin freshKeys /\ ~isFetchingKey(k, fs)
  THEN runQueryFn(k, 1)
  ELSE [fetch |-> {}, error |-> <<>>, posted |-> <<>>]

\* setError calls of the runs started in a step: the last one wins
errorAfter(old, runs) ==
  IF runs[Len(runs)].error # <<>> THEN runs[Len(runs)].error[1]
  ELSE IF Len(runs) = 2 /\ runs[1].error # <<>> THEN runs[1].error[1]
  ELSE old

SearchInit ==
  \E u \in Keywords \cup {UrlNone} :
    LET kw == IF u = UrlNone THEN <<>> ELSE u
        run == observe(u # UrlNone, queryKey(kw, 0), {}, {}) IN
    /\ searchHasKeywords = (u # UrlNone)
    /\ searchKeywords = kw
    /\ currentPage = 0
    /\ isLoadingMore = FALSE
    /\ hasMore = TRUE
    /\ jobs = <<>>
    /\ searchError = errorAfter(NoError, <<run>>)
    /\ loadMoreTimer = FALSE
    /\ hasData = {}
    /\ fresh = {}
    /\ fetches = run.fetch
    /\ searchLast = [searchDid("mount") EXCEPT !.posted = run.posted]

\* onChange of the keywords input: the query key changes with form.values
SearchEdit(kw) ==
  LET run == observe(searchHasKeywords, queryKey(kw, currentPage), fresh, fetches) IN
  /\ kw # searchKeywords
  /\ Cardinality(fetches \cup run.fetch) <= MaxFetches
  /\ searchKeywords' = kw
  /\ fetches' = fetches \cup run.fetch
  /\ searchError' = errorAfter(searchError, <<run>>)
  /\ searchLast' = [searchDid("edit") EXCEPT !.posted = run.posted]
  /\ UNCHANGED <<searchHasKeywords, currentPage, isLoadingMore, hasMore, jobs,
                 loadMoreTimer, hasData, fresh>>

\* form.onSubmit(handleSearch); the Search button is disabled while
\* isLoadingMore and loading while isLoading || isFetching
SearchSubmit ==
  /\ ~isLoadingMore
  /\ ~isFetching
  /\ IF validateKeywords(searchKeywords) # NoError
     THEN /\ searchLast' =
               [searchDid("handleSubmit") EXCEPT !.formError = validateKeywords(searchKeywords)]
          /\ UNCHANGED <<searchHasKeywords, currentPage, jobs, searchError, fresh, fetches>>
     ELSE \* invalidateQueries refetches the query the observer is on (the key
          \* of the last render) if it is enabled; the render that follows
          \* observes the key of page 0
          LET refetch == IF searchHasKeywords
                         THEN runQueryFn(currentKey, 1)
                         ELSE [fetch |-> {}, error |-> <<>>, posted |-> <<>>]
              render == observe(TRUE, queryKey(searchKeywords, 0), {},
                                fetches \cup refetch.fetch) IN
          /\ Cardinality(fetches \cup refetch.fetch \cup render.fetch) <= MaxFetches
          /\ currentPage' = 0
          /\ jobs' = <<>>
          /\ searchError' = errorAfter(NoError, <<refetch, render>>)
          /\ searchHasKeywords' = TRUE
          /\ fresh' = {}
          /\ fetches' = fetches \cup refetch.fetch \cup render.fetch
          /\ searchLast' = [searchDid("handleSubmit") EXCEPT
                              !.posted = refetch.posted \o render.posted]
  /\ UNCHANGED <<searchKeywords, isLoadingMore, hasMore, loadMoreTimer, hasData>>

\* the response of a posted search arrives: the rest of the queryFn's try block
SearchResponse(f, found, more) ==
  /\ f \in fetches
  /\ f.phase = "http"
  /\ LET responseJobs == IF found THEN <<f.key>> ELSE <<>>
         newJobs == IF f.key.page = 0 THEN responseJobs ELSE jobs \o responseJobs IN
     /\ Len(newJobs) <= MaxJobs
     /\ jobs' = newJobs
  /\ hasMore' = more
  /\ searchError' = NoError
  /\ hasData' = hasData \cup {f.key}
  /\ fresh' = fresh \cup {f.key}
  /\ fetches' = fetches \ {f}
  /\ searchLast' = searchDid("queryFn.response")
  /\ UNCHANGED <<searchHasKeywords, searchKeywords, currentPage, isLoadingMore,
                 loadMoreTimer>>

\* jobsApi.search rejects: the catch block of the queryFn, then retry: 1
SearchFailure(f, e) ==
  /\ f \in fetches
  /\ f.phase = "http"
  /\ searchError' = interceptor(e)
  /\ fetches' = (fetches \ {f}) \cup
       (IF f.attempt = 1 THEN {[f EXCEPT !.phase = "retryWait"]} ELSE {})
  /\ searchLast' = searchDid("queryFn.catch")
  /\ UNCHANGED <<searchHasKeywords, searchKeywords, currentPage, isLoadingMore,
                 hasMore, jobs, loadMoreTimer, hasData, fresh>>

\* the retry delay of a failed query is over: the queryFn runs a second time
SearchRetry(f) ==
  /\ f \in fetches
  /\ f.phase = "retryWait"
  /\ LET run == runQueryFn(f.key, 2) IN
     /\ fetches' = (fetches \ {f}) \cup run.fetch
     /\ searchError' = errorAfter(searchError, <<run>>)
     /\ searchLast' = [searchDid("retry") EXCEPT !.posted = run.posted]
  /\ UNCHANGED <<searchHasKeywords, searchKeywords, currentPage, isLoadingMore,
                 hasMore, jobs, loadMoreTimer, hasData, fresh>>

\* the Load More button is rendered and enabled
loadMoreEnabled ==
  /\ searchError = NoError
  /\ ~isLoadingSearch
  /\ Len(jobs) > 0
  /\ hasMore
  /\ ~isLoadingMore
  /\ ~isFetching

\* loadMore up to its await
LoadMoreClick ==
  /\ loadMoreEnabled
  /\ currentPage < MaxPage
  /\ isLoadingMore' = TRUE
  /\ loadMoreTimer' = TRUE
  /\ searchLast' = searchDid("loadMore")
  /\ UNCHANGED <<searchHasKeywords, searchKeywords, currentPage, hasMore, jobs,
                 searchError, hasData, fresh, fetches>>

\* loadMore after its 1 s delay: next page, then the render observes its key
LoadMoreResume ==
  /\ loadMoreTimer
  /\ currentPage < MaxPage
  /\ LET run == observe(searchHasKeywords, queryKey(searchKeywords, currentPage + 1),
                        fresh, fetches) IN
     /\ Cardinality(fetches \cup run.fetch) <= MaxFetches
     /\ fetches' = fetches \cup run.fetch
     /\ searchError' = errorAfter(searchError, <<run>>)
     /\ searchLast' = [searchDid("loadMore.resume") EXCEPT !.posted = run.posted]
  /\ currentPage' = currentPage + 1
  /\ isLoadingMore' = FALSE
  /\ loadMoreTimer' = FALSE
  /\ UNCHANGED <<searchHasKeywords, searchKeywords, hasMore, jobs, hasData, fresh>>

\* ---------------------------------------------------------------------
\* Job search page, infinite-scroll version (pages/JobSearchPage.tsx)
\* ---------------------------------------------------------------------
\* limit: 10, the fixed page size
PageSize == 10

\* lengths of the array a search request may be answered with
PageLengths == {3, PageSize}

\* undefined as a page parameter; a defined parameter o is <<o>>
NoParam == <<>>

\* getNextPageParam(lastPage, allPages), pages given by their lengths
getNextPageParam(lastPage, allPages) ==
  IF lastPage = PageSize THEN <<Len(allPages) * PageSize>> ELSE NoParam

VARIABLE
  scroll   \* the state of the page and of its infinite query:
           \*   keywords        form.values.keywords (part of the query key)
           \*   formError       form.errors.keywords
           \*   pages           data.pages of the query of the non-empty keywords
           \*   fetch           the fetch of that query in progress
           \*   failed          the query's last fetch failed (error is set)
           \*   isIntersecting  entry?.isIntersecting of the last job card
           \*   wire            offsets of this search's requests not yet answered
           \*   twice           an offset was requested while a request of this
           \*                   search for the same offset was not yet answered
           \*   lastOffset      offset of the last request of this search
           \*   decreased       a request of this search had a smaller offset
           \*                   than the request before it

scrollVars == <<scroll>>

NoScrollFetch == [kind |-> "none", offset |-> 0, fetched |-> <<>>]

\* data?.pages, fetch state and error of the query the observer is on: the
\* query of empty keywords never runs (enabled: false, submit is rejected)
scrollData(s) == IF truthy(s.keywords) THEN s.pages ELSE <<>>
scrollFetch(s) == IF truthy(s.keywords) THEN s.fetch ELSE NoScrollFetch
scrollError(s) == truthy(s.keywords) /\ s.failed

hasNextPage(s) ==
  LET d == scrollData(s) IN
  d # <<>> /\ getNextPageParam(d[Len(d)], d) # NoParam

isFetchingNextPage(s) == scrollFetch(s).kind = "next"

\* isLoading: fetching without data
scrollIsLoading(s) == scrollFetch(s).kind # "none" /\ scrollData(s) = <<>>

\* the list of job cards, whose last card carries the intersection ref
listRendered(s) == ~scrollIsLoading(s) /\ ~scrollError(s) /\ scrollData(s) # <<>>

\* a request with offset o goes out
requestOffset(s, o) ==
  [s EXCEPT !.wire = @ \cup {o},
            !.twice = @ \/ o \in s.wire,
            !.lastOffset = <<o>>,
            !.decreased = @ \/ (s.lastOffset # NoParam /\ o < s.lastOffset[1])]

\* fetchNextPage(): a running refetch is cancelled (its request stays
\* unanswered, its result is ignored) and the page after the last one is fetched
fetchNextPage(s) ==
  LET o == getNextPageParam(s.pages[Len(s.pages)], s.pages)[1] IN
  [requestOffset(s, o) EXCEPT !.fetch = [kind |-> "next", offset |-> o, fetched |-> <<>>]]

\* dependencies of the intersection effect
effectDeps(s) == <<s.isIntersecting, hasNextPage(s), isFetchingNextPage(s)>>

\* the condition of the intersection effect without !isFetchingNextPage
shouldFetchNext_NoInFlightTest(s) == s.isIntersecting /\ hasNextPage(s)

\* the condition of the intersection effect
shouldFetchNext(s) == s.isIntersecting /\ hasNextPage(s) /\ ~isFetchingNextPage(s)

\* the render after a state change from before to after: the effect runs if
\* one of its dependencies changed
rendered(before, after) ==
  IF /\ effectDeps(after) # effectDeps(before)
     /\ shouldFetchNext(after)
     /\ Len(after.pages) < MaxScrollPages
  THEN fetchNextPage(after)
  ELSE after

\* the job list is not rendered any more: the intersection entry is reset,
\* before (stale = FALSE) or after (stale = TRUE) the effect of this render
unmounted(s, stale) ==
  IF listRendered(s) THEN s ELSE [s EXCEPT !.isIntersecting = @ /\ stale]

ScrollInit ==
  \E kw \in Keywords :
    scroll = [keywords |-> kw, formError |-> NoError, pages |-> <<>>,
              fetch |-> NoScrollFetch, failed |-> FALSE, isIntersecting |-> FALSE,
              wire |-> {}, twice |-> FALSE, lastOffset |-> NoParam, decreased |-> FALSE]

\* onChange of the keywords input
ScrollEdit(kw, stale) ==
  /\ kw # scroll.keywords
  /\ scroll' = rendered(scroll,
                 unmounted([scroll EXCEPT !.keywords = kw, !.formError = NoError], stale))

\* validate.keywords of this page's form
scrollValidateKeywords(value) == IF ~truthy(value) THEN MsgKeywordsRequired ELSE NoError

\* refetch() of the infinite query: a new search, every page the query holds
\* is requested again from offset 0; a fetch in progress is cancelled
scrollRefetch(s) ==
  [s EXCEPT !.fetch = [kind |-> "refetch", offset |-> 0, fetched |-> <<>>],
            !.failed = IF s.pages = <<>> THEN FALSE ELSE @,
            !.wire = {0},
            !.twice = FALSE,
            !.lastOffset = <<0>>,
            !.decreased = FALSE]

\* form.onSubmit(handler); the button is loading while isLoading
ScrollSubmit(stale) ==
  /\ ~scrollIsLoading(scroll)
  /\ IF scrollValidateKeywords(scroll.keywords) # NoError
     THEN scroll' = [scroll EXCEPT !.formError = scrollValidateKeywords(scroll.keywords)]
     ELSE scroll' = rendered(scroll, unmounted(scrollRefetch(scroll), stale))

\* the request of the fetch in progress is answered with an array of len jobs
ScrollResponse(len) ==
  /\ scroll.fetch.kind # "none"
  /\ LET f == scroll.fetch
         landed == [scroll EXCEPT !.wire = @ \ {f.offset}]
         fetched == Append(f.fetched, len)
         param == getNextPageParam(len, fetched)
         after ==
           IF f.kind = "next"
           THEN [landed EXCEPT !.pages = Append(@, len), !.fetch = NoScrollFetch,
                               !.failed = FALSE]
           ELSE IF Len(fetched) < Len(scroll.pages) /\ param # NoParam
           THEN [requestOffset(landed, param[1]) EXCEPT
                   !.fetch = [kind |-> "refetch", offset |-> param[1], fetched |-> fetched]]
           ELSE [landed EXCEPT !.pages = fetched, !.fetch = NoScrollFetch,
                               !.failed = FALSE]
     IN scroll' = rendered(scroll, after)

\* the request of the fetch in progress fails (retry: false)
ScrollFailure(stale) ==
  /\ scroll.fetch.kind # "none"
  /\ scroll' = rendered(scroll,
                 unmounted([scroll EXCEPT !.wire = @ \ {scroll.fetch.offset},
                                          !.fetch = NoScrollFetch,
                                          !.failed = TRUE], stale))

\* the request of a cancelled fetch is answered or fails: nothing reads it
ScrollIgnored(o) ==
  /\ o \in scroll.wire
  /\ scroll.fetch.kind = "none" \/ scroll.fetch.offset # o
  /\ scroll' = [scroll EXCEPT !.wire = @ \ {o}]

\* the last job card scrolls into or out of view
ScrollIntersect(b) ==
  /\ b # scroll.isIntersecting
  /\ b => listRendered(scroll)
  /\ scroll' = rendered(scroll, [scroll EXCEPT !.isIntersecting = b])

\* ---------------------------------------------------------------------
\* JobCard: the description query of one card
\* ---------------------------------------------------------------------
\* retry: 2 of the card's useQuery
cardRetry == 2

\* retries = 3, the default of retryRequest that getDescription uses
descriptionRetries == 3

VARIABLE
  card   \* one mounted JobCard and the query ['jobDescription', job_id]:
         \*   hasJobId     job?.job_id is truthy
         \*   isExpanded   useState(false)
         \*   data         "none", "fresh" (younger than staleTime) or "stale"
         \*   fetch        "none", "http" (GET in flight), "apiWait" (wait of
         \*                retryRequest) or "retryWait" (retryDelay of the query)
         \*   failureCount failed runs of the queryFn in this fetch
         \*   retriesLeft  retries of the running retryRequest
         \*   error        descriptionError is set
         \*   sent         the last step sent GET /jobs/{id}/description
         \*   everExpanded the card has been expanded at least once

cardVars == <<card>>

\* enabled: !!job?.job_id && isExpanded
cardEnabled(c) == c.hasJobId /\ c.isExpanded

\* the observer after a render in which enabled went from false to true:
\* fetch unless the data is fresh or the query is fetching already
cardShouldFetch(c) == cardEnabled(c) /\ c.data # "fresh" /\ c.fetch = "none"

\* a run of the queryFn: getDescription starts retryRequest, which sends the GET
cardQueryFn(c) ==
  [c EXCEPT !.fetch = "http", !.retriesLeft = descriptionRetries, !.sent = TRUE]

CardInit ==
  card \in {[hasJobId |-> h, isExpanded |-> FALSE, data |-> "none", fetch |-> "none",
             failureCount |-> 0, retriesLeft |-> 0, error |-> FALSE, sent |-> FALSE,
             everExpanded |-> FALSE] : h \in BOOLEAN}

\* handleExpandClick, then the render with the new value of enabled
handleExpandClick ==
  LET c == [card EXCEPT !.isExpanded = ~card.isExpanded,
                        !.everExpanded = TRUE,
                        !.sent = FALSE] IN
  card' = IF cardShouldFetch(c)
          THEN cardQueryFn([c EXCEPT !.failureCount = 0, !.error = FALSE])
          ELSE c

\* the GET succeeds: the description is the query's data
CardResponse ==
  /\ card.fetch = "http"
  /\ card' = [card EXCEPT !.fetch = "none", !.data = "fresh", !.error = FALSE,
                          !.sent = FALSE]

\* the GET fails: retryRequest waits and tries again for a rate-limit
\* message while it has retries left; otherwise the queryFn rejects and the
\* query retries it up to cardRetry times before it stores the error
CardFailure(rateLimit) ==
  /\ card.fetch = "http"
  /\ card' = IF rateLimit /\ card.retriesLeft # 0
             THEN [card EXCEPT !.fetch = "apiWait", !.sent = FALSE]
             ELSE IF card.failureCount < cardRetry
             THEN [card EXCEPT !.fetch = "retryWait",
                               !.failureCount = card.failureCount + 1,
                               !.sent = FALSE]
             ELSE [card EXCEPT !.fetch = "none", !.error = TRUE, !.sent = FALSE]

\* the wait of retryRequest is over: the GET is sent again
CardApiRetry ==
  /\ card.fetch = "apiWait"
  /\ card' = [card EXCEPT !.fetch = "http", !.retriesLeft = card.retriesLeft - 1,
                          !.sent = TRUE]

\* the retryDelay of the query is over: the queryFn runs again
CardQueryRetry ==
  /\ card.fetch = "retryWait"
  /\ card' = cardQueryFn(card)

\* five minutes after the description arrived it is stale
CardStale ==
  /\ card.data = "fresh"
  /\ card' = [card EXCEPT !.data = "stale", !.sent = FALSE]

\* ---------------------------------------------------------------------
\* LoadingSteps (stepped version)
\* ---------------------------------------------------------------------
STEPS ==
  <<"Analyzing job requirements...", "Reviewing resume content...",
    "Identifying optimization opportunities...", "Generating tailored suggestions...">>

\* const STEP_DURATION = 1500
STEP_DURATION == 1500

\* the clock of the model moves in thirds of STEP_DURATION
stepsTick == STEP_DURATION \div 3

\* no timer is set
NoTimer == 0 - 1

VARIABLE
  steps   \* one LoadingSteps element and the clock:
          \*   mounted      the element is rendered
          \*   currentStep  useState(0)
          \*   due          time at which the effect's timer fires, NoTimer if none
          \*   now          ms since the page was opened
          \*   mountedAt    value of now when the element was mounted

stepsVars == <<steps>>

\* the effect without its test of currentStep
stepsEffect_NoLastStepTest(currentStep, now) == now + STEP_DURATION

\* useEffect on currentStep: before the last step a timer of STEP_DURATION is set
stepsEffect(currentStep, now) ==
  IF currentStep < Len(STEPS) - 1 THEN now + STEP_DURATION ELSE NoTimer

\* props of the LoadingStep of index (0-based) in a render
stepActive(s, index) == index = s.currentStep
stepComplete(s, index) == index < s.currentStep

\* the element is mounted at time now: state 0, then the effect runs
stepsMounted(now) ==
  [mounted |-> TRUE, currentStep |-> 0, due |-> stepsEffect(0, now), now |-> now,
   mountedAt |-> now]

StepsInit == steps = stepsMounted(0)

\* time passes, up to the moment the pending timer is due
StepsTick ==
  /\ steps.now + stepsTick <= MaxClock
  /\ steps.due = NoTimer \/ steps.now + stepsTick <= steps.due
  /\ steps' = [steps EXCEPT !.now = steps.now + stepsTick]

\* the timer fires: setCurrentStep(prev => prev + 1), then the effect's
\* cleanup and the effect of the new render
StepsTimer ==
  /\ steps.mounted
  /\ steps.due # NoTimer
  /\ steps.now = steps.due
  /\ steps' = [steps EXCEPT !.currentStep = steps.currentStep + 1,
                            !.due = stepsEffect(steps.currentStep + 1, steps.now)]

\* isLoading turns false: the element is unmounted, the cleanup clears the timer
StepsUnmount ==
  /\ steps.mounted
  /\ steps' = [steps EXCEPT !.mounted = FALSE, !.due = NoTimer]

\* isLoading turns true again: a new element is mounted
StepsMount ==
  /\ ~steps.mounted
  /\ steps' = stepsMounted(steps.now)

\* ---------------------------------------------------------------------
\* App: loading screen and server ping
\* ---------------------------------------------------------------------
\* setTimeout(..., 3000)
LoadingDelay == 3000

\* setInterval(pingServer, 5 * 60 * 1000)
PingInterval == 5 * 60 * 1000

VARIABLE
  app   \* the App element and the clock:
        \*   mounted    the element is rendered
        \*   loading    useState(true)
        \*   timerDue   time at which the loading timer fires, NoTimer if none
        \*   pingDue    time at which the ping interval fires next, NoTimer if none
        \*   now        ms since mount
        \*   pings      calls of pingServer so far
        \*   inFlight   GET /api/ping requests not settled yet
        \*   falls      times loading went from true to false
        \*   op         what the last step was

appVars == <<app>>

\* the Router with the pages is rendered instead of the loader
routesRendered(a) == a.mounted /\ ~a.loading

\* pingServer up to its await: the GET is sent
pingServer(a) == [a EXCEPT !.pings = a.pings + 1, !.inFlight = a.inFlight + 1]

\* an effect cleanup that clears nothing
appCleanup_Nothing(a) == a

\* cleanup of the effect: clearTimeout(timer); clearInterval(intervalId)
appCleanup(a) == [a EXCEPT !.timerDue = NoTimer, !.pingDue = NoTimer]

\* after mount: the effect has set the timer, pinged once and set the interval
AppInit ==
  app = pingServer([mounted |-> TRUE, loading |-> TRUE, timerDue |-> LoadingDelay,
                    pingDue |-> PingInterval, now |-> 0, pings |-> 0, inFlight |-> 0,
                    falls |-> 0, op |-> "mount"])

\* time passes, up to the moment the next timer is due
AppTick ==
  /\ app.now + LoadingDelay <= MaxAppClock
  /\ app.timerDue = NoTimer \/ app.now + LoadingDelay <= app.timerDue
  /\ app.pingDue = NoTimer \/ app.now + LoadingDelay <= app.pingDue
  /\ app' = [app EXCEPT !.now = app.now + LoadingDelay, !.op = "tick"]

\* the loading timer fires: setLoading(false)
AppLoadingTimer ==
  /\ app.timerDue # NoTimer
  /\ app.now = app.timerDue
  /\ app' = [app EXCEPT !.loading = FALSE,
                        !.falls = IF app.loading THEN app.falls + 1 ELSE app.falls,
                        !.timerDue = NoTimer,
                        !.op = "timer"]

\* the interval fires: pingServer()
AppPingInterval ==
  /\ app.pingDue # NoTimer
  /\ app.now = app.pingDue
  /\ app' = [pingServer(app) EXCEPT !.pingDue = app.pingDue + PingInterval,
                                    !.op = "interval"]

\* a GET /api/ping settles: the try block logs success, the catch block logs
\* the error; pingServer returns either way
AppPingSettled(failed) ==
  /\ app.inFlight > 0
  /\ app' = [app EXCEPT !.inFlight = app.inFlight - 1,
                        !.op = IF failed THEN "pingFailed" ELSE "pingOk"]

\* the App element is unmounted: the effect's cleanup runs
AppUnmount ==
  /\ app.mounted
  /\ app' = [appCleanup(app) EXCEPT !.mounted = FALSE, !.op = "unmount"]

\* ---------------------------------------------------------------------
\* Specifications
\* ---------------------------------------------------------------------
\* the components outside the pages: JobCard, LoadingSteps, App
widgetVars == <<cardVars, stepsVars, appVars>>

\* a card without a job_id, left alone
CardIdle == CardInit /\ ~card.hasJobId

\* a LoadingSteps element that is not rendered
StepsIdle == steps = [stepsMounted(0) EXCEPT !.mounted = FALSE, !.due = NoTimer]

\* an App element that was unmounted right after its mount
AppIdle ==
  app = [mounted |-> FALSE, loading |-> TRUE, timerDue |-> NoTimer, pingDue |-> NoTimer,
         now |-> 0, pings |-> 1, inFlight |-> 0, falls |-> 0, op |-> "unmount"]

WidgetIdle == CardIdle /\ StepsIdle /\ AppIdle

vars == <<optVars, apiVars, searchVars, scrollVars, widgetVars>>

\* the Optimize page opened without a '?url=' parameter and left alone
OptIdle == OptInit /\ values.job_url = <<>>

\* the search page opened without a '?keywords=' parameter and left alone
SearchIdle == SearchInit /\ ~searchHasKeywords

\* the infinite-scroll search page opened without a '?keywords=' parameter
\* and left alone
ScrollIdle == ScrollInit /\ scroll.keywords = <<>>

\* the Optimize page
Init == OptInit /\ ApiInit /\ SearchIdle /\ ScrollIdle /\ WidgetIdle

Next ==
  \/ \E v \in TypedResumes : EditField("resume_text", v) /\ UNCHANGED <<apiVars, searchVars, scrollVars, widgetVars>>
  \/ \E v \in TypedDescriptions : EditField("job_description", v) /\ UNCHANGED <<apiVars, searchVars, scrollVars, widgetVars>>
  \/ \E v \in TypedUrls : EditField("job_url", v) /\ UNCHANGED <<apiVars, searchVars, scrollVars, widgetVars>>
  \/ \E f \in Files \cup {NoFile} : handleFileUpload(f) /\ UNCHANGED <<apiVars, searchVars, scrollVars, widgetVars>>
  \/ \E f \in Files : ReaderLoad(f) /\ UNCHANGED <<apiVars, searchVars, scrollVars, widgetVars>>
  \/ \E f \in Files : ReaderError(f) /\ UNCHANGED <<apiVars, searchVars, scrollVars, widgetVars>>
  \/ handleSubmit /\ UNCHANGED <<apiVars, searchVars, scrollVars, widgetVars>>
  \/ \E m \in Endpoints, d \in Suggestions : OptimizeSuccess(m, d) /\ UNCHANGED <<apiVars, searchVars, scrollVars, widgetVars>>
  \/ \E m \in Endpoints, e \in PageFailures : OptimizeFailure(m, e) /\ UNCHANGED <<apiVars, searchVars, scrollVars, widgetVars>>
  \/ \E v \in TypedSuggestions : EditSuggestions(v) /\ UNCHANGED <<apiVars, searchVars, scrollVars, widgetVars>>
  \/ \E ok \in BOOLEAN, e \in PageFailures : ExportClick(ok, e) /\ UNCHANGED <<apiVars, searchVars, scrollVars, widgetVars>>

Spec == Init /\ [][Next]_vars

\* the Optimize page with every handler and the inputs that bear on the
\* uploaded file: every file of the dialog, one result, one failure
UploadFailures == {e \in PageFailures : e.code = "ECONNABORTED"}

NextUpload ==
  \/ \E v \in TypedResumes : EditField("resume_text", v) /\ UNCHANGED <<apiVars, searchVars, scrollVars, widgetVars>>
  \/ \E v \in TypedDescriptions : EditField("job_description", v) /\ UNCHANGED <<apiVars, searchVars, scrollVars, widgetVars>>
  \/ \E f \in Files \cup {NoFile} : handleFileUpload(f) /\ UNCHANGED <<apiVars, searchVars, scrollVars, widgetVars>>
  \/ \E f \in Files : ReaderLoad(f) /\ UNCHANGED <<apiVars, searchVars, scrollVars, widgetVars>>
  \/ \E f \in Files : ReaderError(f) /\ UNCHANGED <<apiVars, searchVars, scrollVars, widgetVars>>
  \/ handleSubmit /\ UNCHANGED <<apiVars, searchVars, scrollVars, widgetVars>>
  \/ \E m \in Endpoints : OptimizeSuccess(m, <<"Add Go experience">>) /\ UNCHANGED <<apiVars, searchVars, scrollVars, widgetVars>>
  \/ \E m \in Endpoints, e \in UploadFailures : OptimizeFailure(m, e) /\ UNCHANGED <<apiVars, searchVars, scrollVars, widgetVars>>
  \/ EditSuggestions(<<"My own wording">>) /\ UNCHANGED <<apiVars, searchVars, scrollVars, widgetVars>>
  \/ \E ok \in BOOLEAN, e \in UploadFailures : ExportClick(ok, e) /\ UNCHANGED <<apiVars, searchVars, scrollVars, widgetVars>>

SpecUpload == Init /\ [][NextUpload]_vars

\* the API client
InitApi == OptIdle /\ ApiInit /\ SearchIdle /\ ScrollIdle /\ WidgetIdle

NextApi ==
  \/ \E m \in Methods, a \in ApiArgs : ApiCall(m, a) /\ UNCHANGED <<optVars, searchVars, scrollVars, widgetVars>>
  \/ ApiResponse /\ UNCHANGED <<optVars, searchVars, scrollVars, widgetVars>>
  \/ \E e \in HttpFailures : ApiFailure(e) /\ UNCHANGED <<optVars, searchVars, scrollVars, widgetVars>>
  \/ ApiRetry /\ UNCHANGED <<optVars, searchVars, scrollVars, widgetVars>>
  \/ \E b \in PingBodies : PingResponse(b) /\ UNCHANGED <<optVars, searchVars, scrollVars, widgetVars>>
  \/ \E e \in HttpFailures : PingFailure(e) /\ UNCHANGED <<optVars, searchVars, scrollVars, widgetVars>>

SpecApi == InitApi /\ [][NextApi]_vars

\* the axios instance of the method has a timeout (axiosInstance: 60000 ms;
\* the older client's axios.create sets none, so its requests wait without limit)
hasTimeout(method) == method \notin OlderMethods

\* every HTTP request made with a timeout settles, by a response, an error or
\* the timeout, and every backoff timer fires
SpecApiFair ==
  /\ SpecApi
  /\ WF_vars(NextApi /\ apiPc = "request" /\ hasTimeout(apiMethod))
  /\ WF_vars(NextApi /\ apiPc = "wait")

\* the job search page
InitSearch == OptIdle /\ ApiInit /\ SearchInit /\ ScrollIdle /\ WidgetIdle

NextSearch ==
  \/ \E kw \in Keywords : SearchEdit(kw) /\ UNCHANGED <<optVars, apiVars, scrollVars, widgetVars>>
  \/ SearchSubmit /\ UNCHANGED <<optVars, apiVars, scrollVars, widgetVars>>
  \/ \E f \in fetches, found \in BOOLEAN, more \in BOOLEAN : SearchResponse(f, found, more) /\ UNCHANGED <<optVars, apiVars, scrollVars, widgetVars>>
  \/ \E f \in fetches, e \in PageFailures : SearchFailure(f, e) /\ UNCHANGED <<optVars, apiVars, scrollVars, widgetVars>>
  \/ \E f \in fetches : SearchRetry(f) /\ UNCHANGED <<optVars, apiVars, scrollVars, widgetVars>>
  \/ LoadMoreClick /\ UNCHANGED <<optVars, apiVars, scrollVars, widgetVars>>
  \/ LoadMoreResume /\ UNCHANGED <<optVars, apiVars, scrollVars, widgetVars>>

SpecSearch == InitSearch /\ [][NextSearch]_vars

\* the infinite-scroll job search page
InitScroll == OptIdle /\ ApiInit /\ SearchIdle /\ ScrollInit /\ WidgetIdle

NextScroll ==
  \/ \E kw \in Keywords, stale \in BOOLEAN : ScrollEdit(kw, stale) /\ UNCHANGED <<optVars, apiVars, searchVars, widgetVars>>
  \/ \E stale \in BOOLEAN : ScrollSubmit(stale) /\ UNCHANGED <<optVars, apiVars, searchVars, widgetVars>>
  \/ \E len \in PageLengths : ScrollResponse(len) /\ UNCHANGED <<optVars, apiVars, searchVars, widgetVars>>
  \/ \E stale \in BOOLEAN : ScrollFailure(stale) /\ UNCHANGED <<optVars, apiVars, searchVars, widgetVars>>
  \/ \E o \in scroll.wire : ScrollIgnored(o) /\ UNCHANGED <<optVars, apiVars, searchVars, widgetVars>>
  \/ \E b \in BOOLEAN : ScrollIntersect(b) /\ UNCHANGED <<optVars, apiVars, searchVars, widgetVars>>

SpecScroll == InitScroll /\ [][NextScroll]_vars

\* one JobCard
InitCard == OptIdle /\ ApiInit /\ SearchIdle /\ ScrollIdle /\ CardInit /\ StepsIdle /\ AppIdle

NextCard ==
  \/ handleExpandClick /\ UNCHANGED <<optVars, apiVars, searchVars, scrollVars, stepsVars, appVars>>
  \/ CardResponse /\ UNCHANGED <<optVars, apiVars, searchVars, scrollVars, stepsVars, appVars>>
  \/ \E rateLimit \in BOOLEAN : CardFailure(rateLimit) /\ UNCHANGED <<optVars, apiVars, searchVars, scrollVars, stepsVars, appVars>>
  \/ CardApiRetry /\ UNCHANGED <<optVars, apiVars, searchVars, scrollVars, stepsVars, appVars>>
  \/ CardQueryRetry /\ UNCHANGED <<optVars, apiVars, searchVars, scrollVars, stepsVars, appVars>>
  \/ CardStale /\ UNCHANGED <<optVars, apiVars, searchVars, scrollVars, stepsVars, appVars>>

SpecCard == InitCard /\ [][NextCard]_vars

\* one LoadingSteps element
InitSteps == OptIdle /\ ApiInit /\ SearchIdle /\ ScrollIdle /\ CardIdle /\ StepsInit /\ AppIdle

NextSteps ==
  \/ StepsTick /\ UNCHANGED <<optVars, apiVars, searchVars, scrollVars, cardVars, appVars>>
  \/ StepsTimer /\ UNCHANGED <<optVars, apiVars, searchVars, scrollVars, cardVars, appVars>>
  \/ StepsUnmount /\ UNCHANGED <<optVars, apiVars, searchVars, scrollVars, cardVars, appVars>>
  \/ StepsMount /\ UNCHANGED <<optVars, apiVars, searchVars, scrollVars, cardVars, appVars>>

SpecSteps == InitSteps /\ [][NextSteps]_vars

\* the App element
InitApp == OptIdle /\ ApiInit /\ SearchIdle /\ ScrollIdle /\ CardIdle /\ StepsIdle /\ AppInit

NextApp ==
  \/ AppTick /\ UNCHANGED <<optVars, apiVars, searchVars, scrollVars, cardVars, stepsVars>>
  \/ AppLoadingTimer /\ UNCHANGED <<optVars, apiVars, searchVars, scrollVars, cardVars, stepsVars>>
  \/ AppPingInterval /\ UNCHANGED <<optVars, apiVars, searchVars, scrollVars, cardVars, stepsVars>>
  \/ \E failed \in BOOLEAN : AppPingSettled(failed) /\ UNCHANGED <<optVars, apiVars, searchVars, scrollVars, cardVars, stepsVars>>
  \/ AppUnmount /\ UNCHANGED <<optVars, apiVars, searchVars, scrollVars, cardVars, stepsVars>>

SpecApp == InitApp /\ [][NextApp]_vars

\* ---------------------------------------------------------------------
\* Properties
\* ---------------------------------------------------------------------
TextEndpoints == {"/optimize/resume", "/optimize/resume/url"}

\* the step that led to this state was a submit of the Optimize form
submitted == last.op = "handleSubmit"

\* the step that led to this state sent an optimize request
sentRequest == last.request # NoReq

\* C1: a submit with job_description and job_url both empty sends no optimize
\* request and reports 'Either job description or URL is required'; no
\* optimize request is ever sent with both empty.
C1_EmptyJobRejected ==
  /\ (submitted /\ ~truthy(values.job_description) /\ ~truthy(values.job_url))
       => /\ ~sentRequest
          /\ last.errors.job_description = MsgEitherRequired
          /\ last.errors.job_url = MsgEitherRequired
          /\ ~isLoading
  /\ sentRequest =>
       CASE last.request.endpoint = "/optimize/resume" -> truthy(last.request.job_description)
         [] last.request.endpoint = "/optimize/resume/url" -> truthy(last.request.job_url)
         [] OTHER -> truthy(last.request.job_description) \/ truthy(last.request.job_url)

\* C1 witness: with a rich document as the resume, a submit with both fields
\* empty has been rejected
C1_Witness ==
  /\ submitted
  /\ currentFile # NoFile /\ isRichName(currentFile.name)
  /\ ~truthy(values.job_description) /\ ~truthy(values.job_url)
  /\ last.errors.job_description = MsgEitherRequired
  /\ ~sentRequest

\* C2 (as claimed): a submit with job_description and job_url both non-empty
\* never sends a request that uses only one of the two.
C2_BothNeverReducedToOne ==
  (submitted /\ sentRequest /\ truthy(values.job_description) /\ truthy(values.job_url))
    => last.request.endpoint = "/optimize/resume/docx"

\* C3: while currentFile is null the Export button is disabled and its click
\* handler posts no export request.
C3_NoExportWithoutFile ==
  /\ currentFile = NoFile => (exportDisabled /\ last.export = <<>>)
  /\ last.export # <<>> => last.export[1].resume = currentFile

\* C3 witness: the export handler ran with no file uploaded and posted nothing
C3_Witness ==
  /\ last.op = "exportClick"
  /\ currentFile = NoFile
  /\ last.export = <<>>

\* C4 (as claimed): the file posted by an export request is a rich document
\* (.doc or .docx).
C4_ExportOnlyRichDocument ==
  last.export # <<>> => isRichName(toLowerCase(last.export[1].resume.name))

\* C10 (as claimed): no request to /optimize/resume or /optimize/resume/url
\* carries an empty resume_text.
C10_NoEmptyResumeText ==
  (sentRequest /\ last.request.endpoint \in TextEndpoints)
    => truthy(last.request.resume_text)

\* C5 (as claimed): no optimization request is issued again without a new call.
C5_NoOptimizationRetry ==
  apiMethod \in OptimizationMethods => (attempts <= 1 /\ apiPc # "wait")

\* C5 (amended): a request of resumeApi (and of the older client) is issued at
\* most once per call; jobsApi.optimizeResume is the only optimization method
\* that issues its request again, only after an Error that isRateLimit accepts,
\* and at most twice.
C5_OnlyOptimizeResumeRetries ==
  /\ apiMethod \in OptimizationMethods \ {"jobsApi.optimizeResume"}
       => (attempts <= 1 /\ apiPc # "wait" /\ waits = <<>>)
  /\ apiMethod = "jobsApi.optimizeResume"
       => /\ attempts <= 3
          /\ Len(waits) = IF attempts = 0 THEN 0 ELSE attempts - 1
          /\ apiPc = "wait" => isRateLimit(apiError)

\* C5 witness: a resumeApi optimization request failed with a rate-limit
\* error and the call was rejected after that single request
C5_Witness ==
  /\ apiMethod = "resumeApi.optimizeFromUrl"
  /\ apiPc = "rejected"
  /\ apiFailure.status = 429
  /\ attempts = 1

\* C6 (as claimed): a request that timed out is issued again at most once.
C6_TimeoutRetriedOnce == timeoutRetries <= 1

\* the waits of a call whose requests all fail with HTTP 429
backoffOf(method) ==
  IF method = "jobsApi.optimizeResume" THEN <<5000, 10000>> ELSE <<2000, 4000, 8000>>

C7_Backoff ==
  (apiMethod \in RetryMethods /\ attempts >= 1 /\ only429)
    => /\ attempts <= Len(backoffOf(apiMethod)) + 1
       /\ Len(waits) = attempts - 1
       /\ waits = SubSeq(backoffOf(apiMethod), 1, Len(waits))
       /\ apiPc = "wait" => delay = backoffOf(apiMethod)[attempts]
       /\ (apiPc = "rejected" /\ apiFailure # NoFailure)
            => /\ attempts = Len(backoffOf(apiMethod)) + 1
               /\ apiError = TooManyMessage

\* C7: while every request of a jobsApi call fails with HTTP 429, the call
\* waits 2000, 4000, 8000 ms (5000, 10000 ms for optimizeResume) between its
\* requests, issues at most 4 (3) requests, is then rejected with the
\* rate-limit Error, and every jobsApi call settles.
C7_BackoffTerminates ==
  /\ []C7_Backoff
  /\ (apiMethod \in RetryMethods /\ apiPc \in {"request", "wait"})
       ~> (apiPc \in {"resolved", "rejected"})

\* C7 witness: a search was rejected after four requests that all got HTTP 429
C7_Witness ==
  /\ apiMethod = "jobsApi.search"
  /\ apiPc = "rejected"
  /\ only429
  /\ attempts = 4
  /\ waits = <<2000, 4000, 8000>>

\* the fixed texts of the two clients
ClientTexts ==
  {TimeoutMessage, TooManyMessage, NotFoundMessage, InvalidRequestMessage,
   GenericMessage, RateLimitExceededMessage, AnErrorOccurredMessage, UnexpectedMessage}

\* the last HTTP request of the call failed
httpFailed == apiPc \in {"rejected", "wait"} /\ apiFailure # NoFailure

\* the Error is the detail of the response body
passedThrough ==
  apiFailure.status # NoResponse /\ apiFailure.hasDetail /\ truthy(apiFailure.detail)
    /\ apiError = apiFailure.detail

\* C8 (as claimed): the Error of a failed HTTP call has a non-empty message;
\* for a timeout, a 429 and a 404 it is a fixed client text; any other message
\* is the non-empty detail of a response with another status.
C8_FixedTextFor404 ==
  httpFailed =>
    /\ truthy(apiError)
    /\ (apiFailure.status \in {NoResponse, 429, 404}) => apiError \in ClientTexts
    /\ apiError \notin ClientTexts => passedThrough

\* C8 (amended): as C8, but a 404 has a fixed text only in the interceptor
\* client; handleError of the older client passes a non-empty detail through
\* for every status but 429, 404 included.
C8_FixedTextPerClient ==
  httpFailed =>
    /\ truthy(apiError)
    /\ (apiFailure.status \in {NoResponse, 429}) => apiError \in ClientTexts
    /\ (apiFailure.status = 404 /\ apiMethod \notin OlderMethods)
         => apiError = NotFoundMessage
    /\ apiError \notin ClientTexts => passedThrough

\* C8 witness: a 429 whose body carries a detail was answered with the fixed text
C8_Witness ==
  /\ httpFailed
  /\ apiMethod \in ResumeMethods
  /\ apiFailure.status = 429
  /\ truthy(apiFailure.detail)
  /\ apiError = TooManyMessage

\* C9: no POST /jobs/search carries empty keywords, on any path that starts a
\* search (mount with a '?keywords=' parameter, edit of the form, submit, Load
\* More, retry); a search opened with an empty keywords parameter fails with
\* 'Keywords are required for job search' and posts nothing.
C9_NoEmptyKeywordsPosted ==
  /\ \A i \in 1..Len(searchLast.posted) : truthy(searchLast.posted[i].keywords)
  /\ \A f \in fetches : f.phase = "http" => truthy(f.key.keywords)
  /\ (searchLast.op = "mount" /\ searchHasKeywords /\ ~truthy(searchKeywords))
       => (searchError = KeywordsRequiredMessage /\ searchLast.posted = <<>>)

\* C9 witness: the enabled query ran with empty keywords, set the error and
\* posted nothing
C9_Witness ==
  /\ searchHasKeywords
  /\ ~truthy(searchKeywords)
  /\ searchLast.op \in {"edit", "retry"}
  /\ searchError = KeywordsRequiredMessage
  /\ searchLast.posted = <<>>
  /\ \A f \in fetches : f.key = currentKey => f.phase = "retryWait"

\* job_url carried by an optimize request, <<>> if it carries none
requestUrl(req) ==
  IF req.endpoint \in {"/optimize/resume/url", "/optimize/resume/docx"}
  THEN req.job_url ELSE <<>>

\* C11: a submit with a non-empty job_url that does not contain
\* 'linkedin.com/jobs' is rejected with 'Must be a valid LinkedIn job URL' and
\* sends nothing, with or without an uploaded document; every non-empty
\* job_url carried by an optimize request contains 'linkedin.com/jobs'.
C11_BadUrlBlocked ==
  /\ (submitted /\ truthy(values.job_url) /\ ~includes(values.job_url, "linkedin.com/jobs"))
       => /\ ~sentRequest
          /\ last.errors.job_url = MsgValidUrl
          /\ ~isLoading
  /\ (sentRequest /\ truthy(requestUrl(last.request)))
       => includes(requestUrl(last.request), "linkedin.com/jobs")

\* C11 witness: with a rich document uploaded and a job description typed, a
\* submit with a job_url of another site has been rejected
C11_Witness ==
  /\ submitted
  /\ currentFile # NoFile /\ isRichName(currentFile.name)
  /\ truthy(values.job_description)
  /\ truthy(values.job_url) /\ ~includes(values.job_url, "linkedin.com/jobs")
  /\ last.errors.job_url = MsgValidUrl
  /\ ~sentRequest

\* a plain-text file whose content is empty after trimming
isBlankText(f) ==
  /\ f # NoFile
  /\ endsWith(toLowerCase(f.name), ".txt")
  /\ Len(trim(f.content)) = 0

\* C12 (as claimed): when the read of a plain-text file whose content is empty
\* after trimming completes, an error notification is shown, the file is not
\* the current resume file and resume_text is left unchanged.
C12_BlankTextFileRejected ==
  [][\A f \in Files :
       (ReaderLoad(f) /\ isBlankText(f))
         => /\ last'.notice # NoNotice
            /\ currentFile' # f
            /\ values'.resume_text = values.resume_text]_vars

\* C13 (as claimed): the response of a request for a page the search page has
\* left (by a new search or by Load More) is discarded: it changes neither
\* the jobs list nor hasMore.
C13_SupersededDiscarded ==
  [][\A f \in fetches, found \in BOOLEAN, more \in BOOLEAN :
       (/\ SearchResponse(f, found, more)
        /\ f.key.keywords = searchKeywords
        /\ f.key.page # currentPage)
         => (jobs' = jobs /\ hasMore' = hasMore)]_vars

\* C14 (as claimed): every optimization request eventually leaves the pending
\* state, by a success or by a failure.
C14_OptimizationSettles ==
  (apiMethod \in OptimizationMethods /\ apiPc = "request")
    ~> (apiPc \in {"resolved", "rejected"})

\* the step that led to this state posted an export request
exported == last.export # <<>>

\* C15: an export request is sent only when an optimization has succeeded
\* (optimizedResume is non-empty) and none is pending, and the suggestions
\* text it carries is non-empty.
C15_ExportAfterCompleted ==
  exported
    => /\ truthy(optimizedResume)
       /\ ~isLoading
       /\ truthy(last.export[1].suggestions)

\* C15 witness: an export was sent after the user had emptied the suggestions
\* textarea, so it carries the optimized text itself
C15_Witness ==
  /\ exported
  /\ ~truthy(editedSuggestions)
  /\ last.export[1].suggestions = optimizedResume
  /\ truthy(optimizedResume)

\* C16: from an accepted submit until its request succeeds optimizedResume is
\* empty and the suggestions panel is not rendered; after a failed request
\* optimizedResume is still empty and the panel stays away.
C16_NoStaleResult ==
  /\ (submitted /\ sentRequest) => isLoading
  /\ isLoading => (optimizedResume = <<>> /\ resultView = "loading")
  /\ last.op = "onError" => (optimizedResume = <<>> /\ resultView # "suggestions")

\* C16 witness: a request has failed after an earlier one had succeeded with
\* suggestions (their text is still in editedSuggestions)
C16_Witness ==
  /\ last.op = "onError"
  /\ truthy(editedSuggestions)
  /\ optimizedResume = <<>>
  /\ resultView = "error"

\* a call of ping has settled
pingDone == apiMethod \in PingMethods /\ apiPc \in {"resolved", "rejected"}

\* C17: ping never throws; it returns true exactly when GET /ping succeeded
\* with a body whose status is 'ok', and false for every other body and for
\* every failure of the request.
C17_PingTotal ==
  pingDone
    => /\ apiPc = "resolved"
       /\ apiResult.kind = "return"
       /\ apiResult.value = (/\ apiFailure = NoFailure
                             /\ apiBody.kind = "object"
                             /\ apiBody.status = <<"ok">>)

\* C17 witness: GET /ping succeeded with a null body and ping returned false
C17_Witness ==
  /\ pingDone
  /\ apiFailure = NoFailure
  /\ apiBody.kind = "null"
  /\ apiResult = Return(FALSE)

\* C18: in the infinite-scroll search the requests of one search never go
\* back to a smaller offset and never ask for an offset that is still being
\* asked for; a next-page request has offset 10 * (pages loaded) and follows
\* a last page of 10 results, and a refetch asks for offset 10 * (pages
\* fetched again so far), only after a page of 10 results.
C18_ScrollPagination ==
  /\ ~scroll.decreased
  /\ ~scroll.twice
  /\ scroll.fetch.kind = "next"
       => /\ scroll.fetch.offset = PageSize * Len(scroll.pages)
          /\ scroll.pages[Len(scroll.pages)] = PageSize
  /\ scroll.fetch.kind = "refetch"
       => /\ scroll.fetch.offset = PageSize * Len(scroll.fetch.fetched)
          /\ scroll.fetch.fetched # <<>>
               => scroll.fetch.fetched[Len(scroll.fetch.fetched)] = PageSize

\* C18 witness: with the last card in view, a second page of fewer than 10
\* jobs has been loaded and nothing more is requested
C18_Witness ==
  /\ scroll.pages = <<PageSize, 3>>
  /\ scroll.isIntersecting
  /\ listRendered(scroll)
  /\ scroll.fetch = NoScrollFetch
  /\ scroll.lastOffset = <<PageSize>>

\* C19: when a request made inside retryRequest fails, the call either waits
\* to issue it again or is rejected with the Error of this very request; it
\* is rejected at once, with no further request, if the message contains
\* neither 'rate limit' nor 'too many requests' or if no retries are left;
\* when a request succeeds the call resolves with no further request.
C19_NeverSwallows ==
  [][(apiMethod \in RetryMethods /\ apiPc = "request")
       => /\ \A e \in HttpFailures :
               ApiFailure(e)
                 => /\ apiPc' \in {"wait", "rejected"}
                    /\ apiError' = interceptor(e)
                    /\ attempts' = attempts
                    /\ (~isRateLimit(interceptor(e)) \/ retries = 0) => apiPc' = "rejected"
          /\ ApiResponse => (apiPc' = "resolved" /\ attempts' = attempts)]_vars

\* C19 witness: a search was rejected with the Error of its fourth request, an
\* HTTP 429, after an earlier request of the call had timed out
C19_Witness ==
  /\ apiMethod = "jobsApi.search"
  /\ apiPc = "rejected"
  /\ attempts = 4
  /\ timeoutRetries >= 1
  /\ apiFailure.status = 429
  /\ apiError = TooManyMessage

\* the submit that led to this state passed validation
accepted == submitted /\ ~hasErrors(last.errors)

\* C20: an accepted submit sends exactly one optimize request and makes
\* exactly one mutation pending: to the .docx endpoint if the current file's
\* name ends in '.docx' or '.doc', otherwise to the URL endpoint if job_url is
\* non-empty, otherwise to the description endpoint; nothing else sends an
\* optimize request.
C20_OneRequestOnePath ==
  /\ sentRequest => accepted
  /\ Cardinality({m \in Endpoints : mutations[m].isPending}) <= 1
  /\ accepted
       => /\ sentRequest
          /\ {m \in Endpoints : mutations[m].isPending} = {last.request.endpoint}
          /\ last.request.endpoint =
               IF /\ currentFile # NoFile
                  /\ (endsWith(currentFile.name, ".docx") \/ endsWith(currentFile.name, ".doc"))
               THEN "/optimize/resume/docx"
               ELSE IF truthy(values.job_url) THEN "/optimize/resume/url"
               ELSE "/optimize/resume"

\* C20 witness: with an uploaded text file and both job fields filled, an
\* accepted submit went to the URL endpoint
C20_Witness ==
  /\ accepted
  /\ currentFile # NoFile /\ ~isRichName(currentFile.name)
  /\ truthy(values.job_url) /\ truthy(values.job_description)
  /\ last.request.endpoint = "/optimize/resume/url"

\* C21: right after an optimize request has succeeded with a non-empty
\* result the result area shows the suggestions panel with that result and
\* no error, whatever the earlier submits did.
C21_LatestSuccessShown ==
  (last.op = "onSuccess" /\ truthy(optimizedResume))
    => /\ resultView = "suggestions"
       /\ shownSuggestions = optimizedResume

\* the file was accepted as a rich document by handleFileUpload
acceptedAsRich(file) ==
  /\ file # NoFile
  /\ file.size <= maxSize
  /\ isRichName(toLowerCase(file.name))

\* C22: a request sent while the current file is one that handleFileUpload
\* accepted as a rich document goes to the .docx endpoint, and no request to
\* /optimize/resume or /optimize/resume/url carries the placeholder
\* 'File selected: <name>' as resume_text.
C22_ShapeDecidedOnce ==
  sentRequest
    => /\ acceptedAsRich(currentFile) => last.request.endpoint = "/optimize/resume/docx"
       /\ last.request.endpoint \in TextEndpoints
            => \A f \in Files : last.request.resume_text # placeholder(f)

\* pages 0..currentPage of the search shown have loaded and nothing is in flight
pagesLoaded ==
  /\ fetches = {}
  /\ searchError = NoError
  /\ \A p \in 0..currentPage : queryKey(searchKeywords, p) \in hasData

\* C23: once pages 0..currentPage of the search have loaded, the jobs list
\* holds only jobs of that search's pages 0..currentPage, every page at most
\* once and in page order.
C23_ListIsConcatenation ==
  pagesLoaded
    => /\ \A i \in 1..Len(jobs) :
            jobs[i].keywords = searchKeywords /\ jobs[i].page <= currentPage
       /\ \A i, j \in 1..Len(jobs) : i < j => jobs[i].page < jobs[j].page

\* C24: editing the keywords field without submitting posts no search
\* request and changes neither the jobs list nor hasMore.
C24_EditSendsNothing ==
  [][(\E kw \in Keywords : SearchEdit(kw))
       => /\ searchLast'.posted = <<>>
          /\ jobs' = jobs
          /\ hasMore' = hasMore]_vars

\* C25: the first request an accepted submit posts asks for page 0; loadMore,
\* after its delay, adds exactly 1 to currentPage and sets isLoadingMore back
\* to false; a request for a page greater than 0 is posted only while hasMore
\* is true.
C25_PageProgression ==
  [][/\ (SearchSubmit /\ searchLast'.posted # <<>>) => searchLast'.posted[1].page = 0
     /\ LoadMoreResume => (currentPage' = currentPage + 1 /\ ~isLoadingMore')
     /\ \A i \in 1..Len(searchLast'.posted) :
          searchLast'.posted[i].page > 0 => hasMore']_vars

\* the file dialog handed over nothing, a file above 5 MB, or a file whose
\* lower-cased name ends in none of .doc, .docx, .txt
notAcceptable(f) ==
  \/ f = NoFile
  \/ f.size > maxSize
  \/ /\ ~endsWith(toLowerCase(f.name), ".docx")
     /\ ~endsWith(toLowerCase(f.name), ".doc")
     /\ ~endsWith(toLowerCase(f.name), ".txt")

\* C26: handleFileUpload of nothing, of a file above 5 MB or of a file with
\* another extension than .doc, .docx, .txt changes neither currentFile nor
\* the resume_text field; no step sets a currentFile back to null.
C26_RejectedUploadChangesNothing ==
  [][/\ (currentFile' # currentFile \/ values'.resume_text # values.resume_text)
          => \A f \in Files \cup {NoFile} : notAcceptable(f) => ~handleFileUpload(f)
     /\ currentFile # NoFile => currentFile' # NoFile]_vars

\* C26 witness: with a file selected, an upload above 5 MB was rejected and
\* the selected file is still the current file
C26_Witness ==
  /\ last.op = "handleFileUpload"
  /\ last.notice = <<"File size must be less than 5MB">>
  /\ currentFile # NoFile

\* C27: right after the user has changed the suggestions textarea to v, the
\* textarea shows v and an Export click would send v as suggestions.
C27_EditsPreserved ==
  last.op = "editSuggestions"
    => /\ shownSuggestions = editedSuggestions
       /\ \A r \in {exportOnClick(currentFile, editedSuggestions, optimizedResume)} :
            r # <<>> => r[1].suggestions = editedSuggestions

\* C28: a step sends a description request only for a card that has a
\* job_id, is expanded at that moment and has been expanded before; expanding
\* a card again while its description is younger than the stale time sends
\* no request.
C28_DescriptionOnlyWhenExpanded ==
  [][/\ card'.sent => (card'.hasJobId /\ card'.isExpanded /\ card'.everExpanded)
     /\ (handleExpandClick /\ ~card.isExpanded /\ card.data = "fresh") => ~card'.sent]_vars

\* C29: currentStep of a rendered LoadingSteps is (time since mount) /
\* STEP_DURATION, rounded down, up to the last index Len(STEPS) - 1 = 3, where
\* it stays; no step lowers it and a step raises it by 1 only; in every
\* render exactly the step of index currentStep is active, the steps before
\* it are complete and the steps after it are neither.
C29_StepsAdvance ==
  /\ steps.mounted
       => /\ steps.currentStep \in 0..(Len(STEPS) - 1)
          /\ Len(STEPS) - 1 = 3
          /\ IF steps.due = NoTimer
             THEN steps.currentStep = Len(STEPS) - 1
             ELSE /\ steps.due = steps.mountedAt + STEP_DURATION * (steps.currentStep + 1)
                  /\ steps.now <= steps.due
                  /\ steps.now >= steps.due - STEP_DURATION
          /\ \A index \in 0..(Len(STEPS) - 1) :
               /\ stepActive(steps, index) <=> index = steps.currentStep
               /\ stepComplete(steps, index) <=> index < steps.currentStep
               /\ ~(stepActive(steps, index) /\ stepComplete(steps, index))
          /\ Cardinality({index \in 0..(Len(STEPS) - 1) : stepActive(steps, index)}) = 1

\* C29 witness: a rendered element has reached the last step and time has
\* gone on for more than another STEP_DURATION
C29_Witness ==
  /\ steps.mounted
  /\ steps.currentStep = Len(STEPS) - 1
  /\ steps.now > steps.mountedAt + STEP_DURATION * Len(STEPS)

\* C30: while App is mounted, loading is true up to LoadingDelay after mount
\* and false from then on; it falls once and never rises; pingServer has run
\* once at mount and once per PingInterval since; a ping that fails changes
\* neither loading nor what is routed; after unmount no step changes loading
\* or calls pingServer.
C30_LoadingOnceAndPing ==
  /\ [](/\ app.falls <= 1
        /\ app.loading <=> app.falls = 0
        /\ app.mounted
             => /\ app.loading <=> app.timerDue = LoadingDelay
                /\ app.loading => app.now <= LoadingDelay
                /\ ~app.loading => app.now >= LoadingDelay
                /\ app.pingDue = PingInterval * app.pings
                /\ app.now <= app.pingDue
                /\ app.now >= app.pingDue - PingInterval)
  /\ [][/\ ~app.loading => ~app'.loading
        /\ app'.op = "pingFailed"
             => /\ app'.loading = app.loading
                /\ routesRendered(app') = routesRendered(app)
        /\ ~app.mounted
             => /\ app'.loading = app.loading
                /\ app'.pings = app.pings
                /\ ~app'.mounted]_vars

\* C30 witness: loading has fallen, the interval has pinged after the ping
\* of the mount, a ping has just failed, and the routes are still rendered
C30_Witness ==
  /\ app.op = "pingFailed"
  /\ app.pings >= 2
  /\ routesRendered(app)

====
